---- MODULE Spec2Model ----
(***************************************************************************)
(* Model of the request-dispatch and error-recovery pipeline of gaelib's   *)
(* app package: Handler.ServeHTTP, Request.processError and the three      *)
(* override-handler registrations.                                         *)
(*                                                                         *)
(* One request is followed statement by statement through ServeHTTP; the   *)
(* registration functions may run between any two statements, as they are  *)
(* plain assignments to package-level variables.                           *)
(***************************************************************************)
EXTENDS Naturals, Integers, Sequences, FiniteSets, TLC

\* Number of requests the server is followed through.
MaxRequests == 2

(***************************************************************************)
(* Values                                                                  *)
(***************************************************************************)

\* type Handler func(r *Request) error -- a handler is modelled by what it
\* does when it is called: the status it writes on r.W (0: it writes
\* nothing), how it ends (res) and, when it returns a failure, the failure:
\* code 0 is an error that is not an *AppError, any other code is an
\* *AppError carrying that code.  pv is the value given to panic().
\* The nil Handler has res = "nilfunc".
Handler(wr, res, code, pv) == [wr |-> wr, res |-> res, code |-> code, pv |-> pv]

NilHandler == Handler(0, "nilfunc", 0, "")

\* Application handlers a router may dispatch to.  One of them writes the
\* status of the failure it then returns.
AppHandlers ==
    {Handler(wr, "nil", 0, "") : wr \in {0, 200}}
    \cup {Handler(wr, "err", c, "") : wr \in {0, 200}, c \in {0, 400, 403, 404, 405, 500}}
    \cup {Handler(404, "err", 404, "")}
    \cup {Handler(wr, "panic", 0, pv) : wr \in {0, 200}, pv \in {"boom", "AppError404", "nil"}}

\* Handlers an application may register as overrides: one that writes the
\* page, one that returns a failure, one that panics.
OverrideHandlers ==
    { Handler(200, "nil", 0, ""),
      Handler(0, "err", 404, ""),
      Handler(0, "panic", 0, "boom") }

Registrable == OverrideHandlers \cup {NilHandler}

\* The NotFoundHandler field of the router, an http.Handler: nil until it
\* is assigned, then the Handler assigned to it, which makes a non-nil
\* interface value also when that Handler is nil.
NoNotFound == [set |-> FALSE, f |-> NilHandler]

AsHttpHandler(f) == [set |-> TRUE, f |-> f]

\* The routers SetNotFoundHandler is called with: the application's router
\* or a nil pointer.
Routers == {"router", "nil"}

\* The handlers the router calls ServeHTTP on: those of the routes, and its
\* NotFoundHandler once set, for a URL that matches no route.
Dispatched(nf) == AppHandlers \cup (IF nf.set THEN {nf.f} ELSE {})

\* Position of SetNotFoundHandler: no call is running, the running call has
\* assigned notFoundHandler and is about to assign the router's field, or
\* the last call has panicked.
NotSetting == [at |-> "idle", f |-> NilHandler]

\* A failure value (the error interface): cls tells whether its dynamic
\* type is *AppError, code is the Code of the *AppError (0 otherwise).
Failure(cls, code) == [cls |-> cls, code |-> code]

NoFailure == Failure(FALSE, -1)

\* The failure a handler returns.
ReturnedFailure(h) == Failure(h.code # 0, h.code)

VARIABLES
    errHandler,        \* var errHandler Handler
    forbiddenHandler,  \* var forbiddenHandler Handler
    notFoundHandler,   \* var notFoundHandler Handler
    routerNotFound,    \* r.NotFoundHandler of the mux router
    setting,           \* position of the running SetNotFoundHandler call
    registered,        \* last argument of each Set...Handler call so far
    served,            \* requests started so far
    pc,                \* position of the request in ServeHTTP
    fn,                \* the receiver of ServeHTTP
    hdr,               \* X-UA-Compatible set on the writer
    inDefer,           \* control is inside the deferred function
    panicking,         \* value of the panic being unwound ("" if none)
    err,               \* argument of the running processError
    e,                 \* local e of processError: [id, code]
    branch,            \* branch of processError's if/else-if chain taken
    W,                 \* writes made on r.W, in order
    logged,            \* c.Errorf records made during the request
    notified,          \* sendErrorByEmail calls made during the request
    invoked,           \* override handler invocations of the request
    errs,              \* classified errors handed to processError
    calls,             \* invocations of fn in the request
    ld,                \* the last call of Request.LoadData
    rd,                \* the last call of Request.Redirect[Permanently]
    mail               \* the last call of sendErrorByEmail on its own

vars == <<errHandler, forbiddenHandler, notFoundHandler, routerNotFound,
          setting, registered,
          served, pc, fn, hdr, inDefer, panicking, err, e, branch, W,
          logged, notified, invoked, errs, calls, ld, rd, mail>>

\* The calls followed outside of ServeHTTP.
lib == <<ld, rd, mail>>

regs == <<errHandler, forbiddenHandler, notFoundHandler, routerNotFound,
          setting, registered>>

req == <<served, pc, fn, hdr, inDefer, panicking, err, e, branch, W,
         logged, notified, invoked, errs, calls>>

NoE == [id |-> 0, code |-> 0]

(***************************************************************************)
(* The response writer                                                     *)
(***************************************************************************)

\* One write on r.W.
Write(by, st, body, id) == [by |-> by, st |-> st, body |-> body, err |-> id]

\* The status of the response: the first WriteHeader wins, 0 if none.
Status(w) == IF w = <<>> THEN 0 ELSE w[1].st

\* What calling handler h does to the writer.
HandlerWrite(w, by, h, id) ==
    IF h.wr # 0 THEN Append(w, Write(by, h.wr, "page", id)) ELSE w

(***************************************************************************)
(* Values of the calls followed outside of ServeHTTP                       *)
(***************************************************************************)

\* Number of fields of the form given to LoadData.
MaxFields == 2

\* Number of addresses in conf.ADMIN_EMAILS.
MaxAdmins == 2

\* The text by which LoadData recognises an unknown-field error.
InvalidPath == "schema: invalid path"

\* The entries of a schema.MultiError, each with the kind of error the
\* decoder made and the text its Error() gives: an unknown-field error, a
\* conversion error, and a conversion error for a field whose name holds
\* the invalid path text.
Messages ==
    { [kind |-> "unknown field", text |-> "schema: invalid path \"csrf\""],
      [kind |-> "conversion",
       text |-> "schema: error converting value for \"age\""],
      [kind |-> "conversion",
       text |-> "schema: error converting value for \"schema: invalid path\""] }

\* What schemaDecoder.Decode returns: nil, a schema.MultiError (a non-empty
\* map from field to error) or an error of another type.
DecodeResult(kind, entries) == [kind |-> kind, entries |-> entries]

DecodeResults ==
    {DecodeResult("nil", <<>>), DecodeResult("other", <<>>)}
    \cup {DecodeResult("multi", m) :
            m \in UNION {[K -> Messages] : K \in (SUBSET (1..MaxFields)) \ {{}}}}

\* What LoadData returns: nil, or the failure made by Error() from the
\* error, whose entries (for a MultiError) are left.
Returned(isNil, f, left) == [isNil |-> isNil, f |-> f, left |-> left]

NotCalledLoad ==
    [called |-> FALSE, parse |-> FALSE, dec |-> DecodeResult("nil", <<>>),
     ret |-> Returned(TRUE, NoFailure, <<>>)]

NotCalledRedirect ==
    [called |-> FALSE, method |-> "", path |-> "", w0 |-> <<>>, W |-> <<>>,
     ret |-> "nil"]

\* What happens with one address of conf.ADMIN_EMAILS: the mail is sent,
\* Template fails, or mail.SendMail fails.
Outcomes == {"ok", "template fails", "send fails"}

\* What a call of sendErrorByEmail has done: the addresses mail.SendMail
\* was called for and the c.Errorf records of the failures, in order.
Mails(sent, local) == [sent |-> sent, local |-> local]

NotCalledMail ==
    [called |-> FALSE, dev |-> FALSE, outs |-> <<>>, sent |-> <<>>,
     local |-> <<>>]

\* The runs of sendErrorByEmail the requests are followed with: what
\* appengine.IsDevAppServer() returns and what happens with each address.
\* On the dev server; in production with two addresses, the first gets
\* its mail and the mail to the second cannot be sent.
MailRuns ==
    { [dev |-> TRUE, outs |-> <<"ok", "send fails">>],
      [dev |-> FALSE, outs |-> <<"ok", "send fails">>] }

(***************************************************************************)
(* Initial state                                                           *)
(***************************************************************************)

Init ==
    /\ errHandler = NilHandler
    /\ forbiddenHandler = NilHandler
    /\ notFoundHandler = NilHandler
    /\ routerNotFound = NoNotFound
    /\ setting = NotSetting
    /\ registered = [err |-> NilHandler, notFound |-> NilHandler,
                     forbidden |-> NilHandler]
    /\ served = 0
    /\ pc = "idle"
    /\ fn = NilHandler
    /\ hdr = FALSE
    /\ inDefer = FALSE
    /\ panicking = ""
    /\ err = NoFailure
    /\ e = NoE
    /\ branch = "none"
    /\ W = <<>>
    /\ logged = <<>>
    /\ notified = <<>>
    /\ invoked = <<>>
    /\ errs = <<>>
    /\ calls = 0
    /\ ld = NotCalledLoad
    /\ rd = NotCalledRedirect
    /\ mail = NotCalledMail

(***************************************************************************)
(* Error classification and logging                                        *)
(***************************************************************************)

\* Error(err): wraps a failure into an *AppError; a failure that carries no
\* code gets 500.
Error(f) == Failure(TRUE, 500)

\* Classify without the type assertion: every failure is wrapped.
Classify_AlwaysWrap(f) == Error(f)

\* processError, the type assertion and its fallback: an *AppError is used
\* as it is, anything else is wrapped.
Classify(f) == IF f.cls THEN f ELSE Error(f)

\* fmt.Errorf("panic recovered error: %s", rec): a new error that is not an
\* *AppError, whatever rec is.
Errorf(rec) == Failure(FALSE, 0)

\* recover(): the value given to panic.  For panic(nil) the runtime returns
\* nil or a *runtime.PanicNilError, depending on the toolchain's panicnil
\* setting.
RecoverValues(pv) == IF pv = "nil" THEN {"nil", "PanicNilError"} ELSE {pv}

\* AfterAdmin leaving the function when an address fails.
AfterAdmin_ReturnsOnFailure(out, i, n) ==
    IF out = "ok" /\ i < n THEN "loop" ELSE "returned"

\* Where sendErrorByEmail is after the address at index i of n, whatever
\* happened with it: at the next address, or at its end.
AfterAdmin(out, i, n) == IF i < n THEN "loop" ELSE "returned"

\* One iteration of the range over conf.ADMIN_EMAILS, for the address at
\* index i with outcome out: when Template fails, c.Errorf and continue;
\* otherwise mail.SendMail is called, and c.Errorf when it fails.
SendToAdmin(m, i, out) ==
    Mails(IF out = "template fails" THEN m.sent ELSE Append(m.sent, i),
          IF out = "ok" THEN m.local
          ELSE Append(m.local, [admin |-> i, what |-> out]))

\* The range over conf.ADMIN_EMAILS from index i on.
RECURSIVE SendFrom(_, _, _)
SendFrom(m, i, outs) ==
    LET m2 == SendToAdmin(m, i, outs[i]) IN
      IF AfterAdmin(outs[i], i, Len(outs)) = "loop"
      THEN SendFrom(m2, i + 1, outs)
      ELSE m2

\* sendErrorByEmail: nothing on the dev server, otherwise one iteration per
\* address.  dev is what appengine.IsDevAppServer() returns, outs what will
\* happen with each address of conf.ADMIN_EMAILS.
SendErrorByEmailResult(dev, outs) ==
    IF dev \/ outs = <<>> THEN Mails(<<>>, <<>>)
    ELSE SendFrom(Mails(<<>>, <<>>), 1, outs)

\* A c.Errorf record sendErrorByEmail makes for a failure: it belongs to no
\* classified error.
LocalRecord(f) == [id |-> 0, code |-> 0, admin |-> f.admin, what |-> f.what]

\* LogError: c.Errorf once with the error, then sendErrorByEmail, which
\* runs to its end before LogError returns.  l is the log, n the calls of
\* the notifier, each with the addresses it called mail.SendMail for.
LogError(l, n, x, dev, outs) ==
    LET r == SendErrorByEmailResult(dev, outs) IN
      << Append(l, x) \o [j \in DOMAIN r.local |-> LocalRecord(r.local[j])],
         Append(n, [id |-> x.id, code |-> x.code, sent |-> r.sent]) >>

\* (*AppError).Log: the error is logged and reported to the notifier.
AppErrorLog(l, n, x, dev, outs) == LogError(l, n, x, dev, outs)

(***************************************************************************)
(* Request.processError: routing                                           *)
(***************************************************************************)

\* Route with the 500-override taken for any code.
Route_AnyCodeToErrHandler(code, eh, nh, fh) ==
    IF eh # NilHandler THEN "err"
    ELSE IF code = 404 /\ nh # NilHandler THEN "notFound"
    ELSE IF code = 403 /\ fh # NilHandler THEN "forbidden"
    ELSE "none"

\* The if / else-if chain of processError: which override, if any, the
\* error is routed to, given the registrations read by the conditions.
Route(code, eh, nh, fh) ==
    IF code = 500 /\ eh # NilHandler THEN "err"
    ELSE IF code = 404 /\ nh # NilHandler THEN "notFound"
    ELSE IF code = 403 /\ fh # NilHandler THEN "forbidden"
    ELSE "none"

\* AfterHandler without the err != nil test.
AfterHandler_NoNilTest(res) ==
    CASE res = "panic" -> "recover"
      [] OTHER -> "pe_log"

\* Where ServeHTTP goes once fn(r) has ended with res.
AfterHandler(res) ==
    CASE res = "nil" -> "done"
      [] res = "err" -> "pe_log"
      [] OTHER -> "recover"

\* Where control goes when a panic starts unwinding: the deferred function
\* recovers it, unless the panic comes from inside the deferred function.
Unwind(deferred) == IF deferred THEN "escaped" ELSE "recover"

\* AfterOverride routing the override's failure again.
AfterOverride_RouteAgain(res, deferred) ==
    CASE res = "nil" -> "done"
      [] res = "err" -> "pe_check"
      [] OTHER -> IF deferred THEN "escaped" ELSE "recover"

\* AfterOverride without the return after a successful override.
AfterOverride_NoReturn(res, deferred) ==
    CASE res \in {"nil", "err"} -> "pe_default"
      [] OTHER -> IF deferred THEN "escaped" ELSE "recover"

\* Where processError goes once the override has ended with res.
AfterOverride(res, deferred) ==
    CASE res = "nil" -> "done"
      [] res = "err" -> "pe_default"
      [] OTHER -> Unwind(deferred)

\* DefaultStatus with the code fixed to 500.
DefaultStatus_Always500(x) == 500

\* The code processError passes to http.Error.
DefaultStatus(x) == x.code

\* The message processError passes to http.Error: the empty string,
\* whatever the error.
DefaultMessage(x) == ""

\* http.Error(w, msg, code): the body written is the message followed by a
\* newline (fmt.Fprintln).
HttpErrorBody(msg) == msg \o "\n"

(***************************************************************************)
(* Handler.ServeHTTP                                                       *)
(***************************************************************************)

\* ServeHTTP_Begin without the X-UA-Compatible header.
ServeHTTP_Begin_NoHeader ==
    /\ pc \in {"idle", "done", "escaped"}
    /\ served < MaxRequests
    /\ \E h \in Dispatched(routerNotFound) : fn' = h
    /\ served' = served + 1
    /\ hdr' = FALSE
    /\ pc' = "call"
    /\ inDefer' = FALSE
    /\ panicking' = ""
    /\ err' = NoFailure
    /\ e' = NoE
    /\ branch' = "none"
    /\ W' = <<>>
    /\ logged' = <<>>
    /\ notified' = <<>>
    /\ invoked' = <<>>
    /\ errs' = <<>>
    /\ calls' = 0
    /\ UNCHANGED <<regs, lib>>

\* ServeHTTP up to the defer statement: the header is set and the Request
\* is built.  The previous request is over.
ServeHTTP_Begin ==
    /\ pc \in {"idle", "done", "escaped"}
    /\ served < MaxRequests
    /\ \E h \in Dispatched(routerNotFound) : fn' = h
    /\ served' = served + 1
    /\ hdr' = TRUE
    /\ pc' = "call"
    /\ inDefer' = FALSE
    /\ panicking' = ""
    /\ err' = NoFailure
    /\ e' = NoE
    /\ branch' = "none"
    /\ W' = <<>>
    /\ logged' = <<>>
    /\ notified' = <<>>
    /\ invoked' = <<>>
    /\ errs' = <<>>
    /\ calls' = 0
    /\ UNCHANGED <<regs, lib>>

\* err := fn(r)
CallHandler ==
    /\ pc = "call"
    /\ calls' = calls + 1
    /\ W' = HandlerWrite(W, "handler", fn, 0)
    /\ pc' = AfterHandler(fn.res)
    /\ err' = IF fn.res = "err" THEN ReturnedFailure(fn) ELSE err
    /\ panicking' = CASE fn.res = "panic" -> fn.pv
                       [] fn.res = "nilfunc" -> "nil dereference"
                       [] OTHER -> ""
    /\ UNCHANGED <<lib, regs, served, fn, hdr, inDefer, e, branch, logged,
                   notified, invoked, errs>>

\* The deferred function, run while a panic unwinds ServeHTTP.
Recover ==
    /\ pc = "recover"
    /\ \E rec \in RecoverValues(panicking) :
         IF rec # "nil"
         THEN /\ err' = Error(Errorf(rec))
              /\ pc' = "pe_log"
         ELSE /\ err' = err
              /\ pc' = "done"
    /\ inDefer' = TRUE
    /\ panicking' = ""
    /\ UNCHANGED <<lib, regs, served, fn, hdr, e, branch, W, logged, notified,
                   invoked, errs, calls>>

(***************************************************************************)
(* Request.processError                                                    *)
(***************************************************************************)

\* processError up to e.Log(r.C).
ProcessErrorLog ==
    /\ pc = "pe_log"
    /\ \E run \in MailRuns :
         LET x == [id |-> Len(errs) + 1, code |-> Classify(err).code]
             lg == AppErrorLog(logged, notified, x, run.dev, run.outs)
         IN /\ e' = x
            /\ errs' = Append(errs, x)
            /\ logged' = lg[1]
            /\ notified' = lg[2]
    /\ pc' = "pe_check"
    /\ UNCHANGED <<lib, regs, served, fn, hdr, inDefer, panicking, err, branch,
                   W, invoked, calls>>

\* The conditions of the if / else-if chain.
ProcessErrorCheck ==
    /\ pc = "pe_check"
    /\ branch' = Route(e.code, errHandler, notFoundHandler, forbiddenHandler)
    /\ pc' = IF branch' = "none" THEN "pe_default" ELSE "pe_invoke"
    /\ UNCHANGED <<lib, regs, served, fn, hdr, inDefer, panicking, err, e, W,
                   logged, notified, invoked, errs, calls>>

\* The registration the taken branch calls.
Registered(b) ==
    CASE b = "err" -> errHandler
      [] b = "notFound" -> notFoundHandler
      [] OTHER -> forbiddenHandler

\* The call of the override in the taken branch.  The variable is read
\* again for the call; calling a nil Handler panics.
ProcessErrorInvoke ==
    /\ pc = "pe_invoke"
    /\ LET h == Registered(branch) IN
         IF h = NilHandler
         THEN /\ pc' = Unwind(inDefer)
              /\ panicking' = "nil call"
              /\ UNCHANGED <<W, invoked>>
         ELSE /\ invoked' = Append(invoked,
                    [kind |-> branch, h |-> h, code |-> e.code, err |-> e.id,
                     deferred |-> inDefer])
              /\ W' = HandlerWrite(W, "override", h, e.id)
              /\ pc' = AfterOverride(h.res, inDefer)
              /\ panicking' = IF h.res = "panic" THEN h.pv ELSE ""
    /\ UNCHANGED <<lib, regs, served, fn, hdr, inDefer, err, e, branch, logged,
                   notified, errs, calls>>

\* http.Error(r.W, "", e.Code)
ProcessErrorDefault ==
    /\ pc = "pe_default"
    /\ W' = Append(W, Write("default", DefaultStatus(e),
                               HttpErrorBody(DefaultMessage(e)), e.id))
    /\ pc' = "done"
    /\ UNCHANGED <<lib, regs, served, fn, hdr, inDefer, panicking, err, e, branch,
                   logged, notified, invoked, errs, calls>>

(***************************************************************************)
(* Registration                                                            *)
(***************************************************************************)

SetErrorHandler(f) ==
    /\ errHandler' = f
    /\ registered' = [registered EXCEPT !.err = f]
    /\ UNCHANGED <<forbiddenHandler, notFoundHandler, routerNotFound, setting,
                   req, lib>>

\* SetForbiddenHandler assigning the 500-override's variable.
SetForbiddenHandler_WrongVariable(f) ==
    /\ errHandler' = f
    /\ registered' = [registered EXCEPT !.forbidden = f]
    /\ UNCHANGED <<forbiddenHandler, notFoundHandler, routerNotFound, setting,
                   req, lib>>

SetForbiddenHandler(f) ==
    /\ forbiddenHandler' = f
    /\ registered' = [registered EXCEPT !.forbidden = f]
    /\ UNCHANGED <<errHandler, notFoundHandler, routerNotFound, setting, req,
                   lib>>

\* SetNotFoundHandler(r, f) up to the second assignment: notFoundHandler
\* is assigned; evaluating r.NotFoundHandler on a nil router panics, which
\* ends the call.
SetNotFoundHandler(r, f) ==
    /\ setting.at # "assigned"
    /\ notFoundHandler' = f
    /\ registered' = [registered EXCEPT !.notFound = f]
    /\ setting' = IF r = "nil" THEN [at |-> "panicked", f |-> NilHandler]
                  ELSE [at |-> "assigned", f |-> f]
    /\ UNCHANGED <<errHandler, forbiddenHandler, routerNotFound, req, lib>>

\* r.NotFoundHandler = f
SetNotFoundHandler_Router ==
    /\ setting.at = "assigned"
    /\ routerNotFound' = AsHttpHandler(setting.f)
    /\ setting' = NotSetting
    /\ UNCHANGED <<errHandler, forbiddenHandler, notFoundHandler, registered,
                   req, lib>>

(***************************************************************************)
(* Request.LoadData                                                        *)
(***************************************************************************)

\* strings.Contains(msg, sub): sub is found somewhere within msg.
Contains(msg, sub) ==
    \E i \in 0..(Len(msg) - Len(sub)) :
       SubSeq(msg, i + 1, i + Len(sub)) = sub

\* The MultiError after the loop that deletes the entries whose text holds
\* the invalid path text.
Filtered(m) ==
    [k \in {j \in DOMAIN m : ~Contains(m[j].text, InvalidPath)} |-> m[k]]

\* LoadData(data): parseFails tells whether r.Req.ParseForm fails, dec is
\* what the decoder returns.
LoadDataResult(parseFails, dec) ==
    IF parseFails THEN Returned(FALSE, Error(Failure(FALSE, 0)), <<>>)
    ELSE IF dec.kind = "nil" THEN Returned(TRUE, NoFailure, <<>>)
    ELSE IF dec.kind = "multi" /\ DOMAIN Filtered(dec.entries) = {}
         THEN Returned(TRUE, NoFailure, <<>>)
    ELSE IF dec.kind = "multi"
         THEN Returned(FALSE, Error(Failure(FALSE, 0)), Filtered(dec.entries))
    ELSE Returned(FALSE, Error(Failure(FALSE, 0)), <<>>)

LoadData ==
    /\ \E parseFails \in BOOLEAN, dec \in DecodeResults :
         ld' = [called |-> TRUE, parse |-> parseFails, dec |-> dec,
                ret |-> LoadDataResult(parseFails, dec)]
    /\ UNCHANGED <<regs, req, rd, mail>>

(***************************************************************************)
(* Request.Redirect, Request.RedirectPermanently                           *)
(***************************************************************************)

\* http.StatusFound
StatusFound == 302

\* http.StatusMovedPermanently
StatusMovedPermanently == 301

\* http.Redirect(w, req, path, code): one write with the code, towards path.
HttpRedirect(w, path, code) == Append(w, Write("redirect", code, path, 0))

\* r.Redirect(path): the writer afterwards and the error returned.
RedirectResult(w, path) ==
    [W |-> HttpRedirect(w, path, StatusFound), ret |-> "nil"]

\* RedirectPermanentlyResult with the status of Redirect.
RedirectPermanentlyResult_Found(w, path) ==
    [W |-> HttpRedirect(w, path, StatusFound), ret |-> "nil"]

\* r.RedirectPermanently(path): the writer afterwards and the error
\* returned.
RedirectPermanentlyResult(w, path) ==
    [W |-> HttpRedirect(w, path, StatusMovedPermanently), ret |-> "nil"]

\* The writers a handler calls a redirect on: a fresh one, or one it has
\* written a page on.
RedirectWriters == {<<>>, <<Write("handler", 200, "page", 0)>>}

RedirectPaths == {"/", "/foo"}

Redirect ==
    /\ \E w \in RedirectWriters, path \in RedirectPaths :
         LET r == RedirectResult(w, path) IN
           rd' = [called |-> TRUE, method |-> "Redirect", path |-> path,
                  w0 |-> w, W |-> r.W, ret |-> r.ret]
    /\ UNCHANGED <<regs, req, ld, mail>>

RedirectPermanently ==
    /\ \E w \in RedirectWriters, path \in RedirectPaths :
         LET r == RedirectPermanentlyResult(w, path) IN
           rd' = [called |-> TRUE, method |-> "RedirectPermanently",
                  path |-> path, w0 |-> w, W |-> r.W, ret |-> r.ret]
    /\ UNCHANGED <<regs, req, ld, mail>>

(***************************************************************************)
(* sendErrorByEmail, called on its own                                     *)
(***************************************************************************)

\* One call of sendErrorByEmail.  dev is what appengine.IsDevAppServer()
\* returns, outs what will happen with each address of conf.ADMIN_EMAILS.
SendErrorByEmail ==
    /\ \E dev \in BOOLEAN, n \in 0..MaxAdmins :
         \E outs \in [1..n -> Outcomes] :
           LET r == SendErrorByEmailResult(dev, outs) IN
             mail' = [called |-> TRUE, dev |-> dev, outs |-> outs,
                      sent |-> r.sent, local |-> r.local]
    /\ UNCHANGED <<regs, req, ld, rd>>

Next ==
    \/ ServeHTTP_Begin
    \/ CallHandler
    \/ Recover
    \/ ProcessErrorLog
    \/ ProcessErrorCheck
    \/ ProcessErrorInvoke
    \/ ProcessErrorDefault
    \/ \E f \in Registrable : SetErrorHandler(f)
    \/ \E f \in Registrable : SetForbiddenHandler(f)
    \/ \E r \in Routers, f \in Registrable : SetNotFoundHandler(r, f)
    \/ SetNotFoundHandler_Router

Spec == Init /\ [][Next]_vars

\* The calls of LoadData, Redirect, RedirectPermanently and
\* sendErrorByEmail, each with every input.
LibNext ==
    \/ LoadData
    \/ Redirect
    \/ RedirectPermanently
    \/ SendErrorByEmail

LibSpec == Init /\ [][LibNext]_vars

TypeOK ==
    /\ errHandler \in Registrable
    /\ forbiddenHandler \in Registrable
    /\ notFoundHandler \in Registrable
    /\ routerNotFound \in {NoNotFound} \cup {AsHttpHandler(f) : f \in Registrable}
    /\ setting.at \in {"idle", "assigned", "panicked"}
    /\ setting.at = "assigned" => setting.f = notFoundHandler
    /\ fn \in AppHandlers \cup {NilHandler}
    /\ served \in 0..MaxRequests
    /\ pc \in {"idle", "call", "recover", "pe_log", "pe_check", "pe_invoke",
               "pe_default", "done", "escaped"}
    /\ Len(W) <= 5

(***************************************************************************)
(* Properties                                                              *)
(***************************************************************************)

\* ServeHTTP has returned or has been left by a panic.
Terminal == pc \in {"done", "escaped"}

\* The code the failure returned by handler h is classified with.
ExpectedCode(h) == IF h.code = 0 THEN 500 ELSE h.code

\* The writes processError made itself for the error with identity id.
DefaultWrites(id) == {i \in DOMAIN W : W[i].by = "default" /\ W[i].err = id}

\* The override invocations made for the error with identity id.
InvocationsFor(id) == {i \in DOMAIN invoked : invoked[i].err = id}

\* Number of records of the error with identity id in sequence q.
Records(q, id) == Cardinality({i \in DOMAIN q : q[i].id = id})

\* Number of records of log l that are for a classified error, the others
\* being the notifier's records of its own failures.
ErrorRecords(l) == Cardinality({i \in DOMAIN l : l[i].id # 0})

\* C1 as stated: once a request whose handler returned a failure is over,
\* the status of the response is the classified code of that failure.
C1_StatusIsClassifiedCode ==
    (Terminal /\ calls = 1 /\ fn.res = "err")
        => Status(W) = ExpectedCode(fn)

\* C1, amended: for a request whose handler returned a failure, the error
\* handed to the routing carries the classified code of the failure; every
\* write processError makes itself for that failure carries that code, so
\* the status is that code when that write is the first one on the writer;
\* when the matching override returned no failure processError wrote
\* nothing itself for it; and a request that ended without any panic either
\* was resolved by the override or got the default write.
C1_DefaultWriteCarriesClassifiedCode ==
    (calls = 1 /\ fn.res = "err" /\ errs # <<>>) =>
        /\ errs[1].code = ExpectedCode(fn)
        /\ \A i \in DefaultWrites(1) : W[i].st = ExpectedCode(fn)
        /\ (1 \in DefaultWrites(1)) => Status(W) = ExpectedCode(fn)
        /\ (\E j \in InvocationsFor(1) : invoked[j].h.res = "nil")
              => DefaultWrites(1) = {}
        /\ (pc = "done" /\ ~inDefer) =>
              \/ \E j \in InvocationsFor(1) : invoked[j].h.res = "nil"
              \/ Cardinality(DefaultWrites(1)) = 1

\* C1 witness: a handler returned NotFound() without writing, no override
\* took the request and the response is the bare 404.
C1_Witness ==
    /\ pc = "done"
    /\ fn = Handler(0, "err", 404, "")
    /\ invoked = <<>>
    /\ W = <<Write("default", 404, "\n", 1)>>

\* C2 as stated: at most one terminal write is made on the response writer
\* in a request.
C2_AtMostOneWrite == Len(W) <= 1

\* C3 as stated: a request whose handler panicked ends inside ServeHTTP
\* with the panic turned into a 500 error that went through processError,
\* and its response has status 500.
C3_PanicBecomes500 ==
    (Terminal /\ calls = 1 /\ fn.res = "panic") =>
        /\ pc = "done"
        /\ errs # <<>>
        /\ errs[1].code = 500
        /\ Status(W) = 500

\* C4 as stated: no panic leaves ServeHTTP.
C4_NoPanicEscapes == pc # "escaped"

\* C5: every override invocation is for an error whose code is the one of
\* the override's kind, and that code is the code of the error being
\* processed; a failure with another code leads to no invocation at all.
C5_OverrideMatchesCode ==
    /\ \A i \in DOMAIN invoked :
         /\ invoked[i].kind = "err" => invoked[i].code = 500
         /\ invoked[i].kind = "notFound" => invoked[i].code = 404
         /\ invoked[i].kind = "forbidden" => invoked[i].code = 403
         /\ invoked[i].kind \in {"err", "notFound", "forbidden"}
         /\ invoked[i].err \in DOMAIN errs
         /\ errs[invoked[i].err].code = invoked[i].code
    /\ (fn.res = "err" /\ fn.code \in {400, 405}) => invoked = <<>>

\* C5 witness: with all three overrides registered, a 404 failure has been
\* routed to the 404-override and to no other.
C5_Witness ==
    /\ fn.res = "err" /\ fn.code = 404
    /\ errHandler # NilHandler
    /\ forbiddenHandler # NilHandler
    /\ notFoundHandler # NilHandler
    /\ Len(invoked) = 1
    /\ invoked[1].kind = "notFound"
    /\ invoked[1].h = notFoundHandler

\* C6: an override invocation that returned a failure is the last override
\* invocation of the request and the only one for its error; processError
\* then makes exactly one default write, carrying the code of the error
\* that was routed (not that of the override's failure), and that code is
\* the status when nothing was written before.
C6_FailedOverrideFallsToDefault ==
    \A i \in DOMAIN invoked :
        invoked[i].h.res = "err" =>
            /\ i = Len(invoked)
            /\ InvocationsFor(invoked[i].err) = {i}
            /\ IF pc = "pe_default"
               THEN e.id = invoked[i].err /\ DefaultWrites(e.id) = {}
               ELSE /\ pc = "done"
                    /\ DefaultWrites(invoked[i].err) = {Len(W)}
                    /\ W[Len(W)].st = errs[invoked[i].err].code
                    /\ W[Len(W)].st = invoked[i].code
                    /\ Len(W) = 1 => Status(W) = invoked[i].code

\* C6 witness: the 500-override returned a 404 failure while a 404-override
\* was registered; the response is the bare 500.
C6_Witness ==
    /\ pc = "done"
    /\ notFoundHandler # NilHandler
    /\ Len(invoked) = 1
    /\ invoked[1].kind = "err"
    /\ invoked[1].h = Handler(0, "err", 404, "")
    /\ W = <<Write("default", 500, "\n", 1)>>

\* C7: when an override returned no failure, ServeHTTP is over, nothing was
\* invoked after the override, processError wrote nothing itself for that
\* error and the last write on the writer, if the override wrote, is the
\* override's.
C7_ResolvedByOverride ==
    \A i \in DOMAIN invoked :
        invoked[i].h.res = "nil" =>
            /\ pc = "done"
            /\ i = Len(invoked)
            /\ DefaultWrites(invoked[i].err) = {}
            /\ invoked[i].h.wr # 0 =>
                  /\ W # <<>>
                  /\ W[Len(W)] = Write("override", invoked[i].h.wr, "page",
                                       invoked[i].err)
            /\ invoked[i].h.wr = 0 =>
                  \A k \in DOMAIN W : W[k].err # invoked[i].err

\* C7 witness: a 403 failure was resolved by the 403-override, whose page is
\* the whole response.
C7_Witness ==
    /\ pc = "done"
    /\ fn = Handler(0, "err", 403, "")
    /\ Len(invoked) = 1
    /\ invoked[1].kind = "forbidden"
    /\ invoked[1].h = Handler(200, "nil", 0, "")
    /\ W = <<Write("override", 200, "page", 1)>>

\* C8 as stated: every request whose handler returned a failure or
\* panicked has, once processError has logged or the request is over, exactly
\* one log record and one notifier call for its classified error, with the
\* classified code (500 for a panic); every classified error handed to
\* processError has exactly one record and one notifier call, whatever branch
\* follows, and every override invocation and default write is for a
\* recorded error.  The records the notifier makes of its own failures are
\* beside these and change none of the counts.
C8_LoggedExactlyOnce ==
    /\ \A i \in DOMAIN errs :
         /\ Records(logged, errs[i].id) = 1
         /\ Records(notified, errs[i].id) = 1
    /\ ErrorRecords(logged) = Len(errs) /\ Len(notified) = Len(errs)
    /\ \A i \in DOMAIN invoked : Records(logged, invoked[i].err) = 1
    /\ \A i \in DOMAIN W :
         W[i].by # "handler" => Records(notified, W[i].err) = 1
    /\ (calls = 1 /\ fn.res = "err" /\ pc # "pe_log") =>
         /\ Records(logged, 1) = 1 /\ logged[1].code = ExpectedCode(fn)
         /\ Records(notified, 1) = 1 /\ notified[1].code = ExpectedCode(fn)
    /\ (Terminal /\ calls = 1 /\ fn.res = "panic") =>
         /\ Records(logged, 1) = 1 /\ logged[1].code = 500
         /\ Records(notified, 1) = 1 /\ notified[1].code = 500

\* C9 as stated: in a request the application handler is invoked once and
\* at most one override handler is invoked.
C9_AtMostOneOverride == calls <= 1 /\ Len(invoked) <= 1

\* C10: once the handler has returned no failure, ServeHTTP is over and the
\* adapter has done nothing more: the only write is the handler's, no
\* override was invoked, no error was classified, logged or reported.
C10_SuccessLeavesResponseAlone ==
    (calls = 1 /\ fn.res = "nil") =>
        /\ pc = "done"
        /\ ~inDefer
        /\ \A i \in DOMAIN W : W[i].by = "handler"
        /\ Len(W) = (IF fn.wr = 0 THEN 0 ELSE 1)
        /\ invoked = <<>>
        /\ errs = <<>>
        /\ logged = <<>>
        /\ notified = <<>>

\* C10 witness: the handler wrote its page and returned nil while a
\* 500-override was registered.
C10_Witness ==
    /\ pc = "done"
    /\ calls = 1
    /\ fn = Handler(200, "nil", 0, "")
    /\ errHandler # NilHandler
    /\ W = <<Write("handler", 200, "page", 0)>>

\* C11 as stated: the default response written by processError has the
\* classified status code and an empty body.
C11_DefaultBodyEmpty ==
    \A i \in DOMAIN W :
        W[i].by = "default" =>
            /\ W[i].st = errs[W[i].err].code
            /\ W[i].body = ""

\* The failures a handler can hand to processError: an error that is not an
\* *AppError, and an *AppError with each canonical code.
Failures ==
    {Failure(FALSE, 0)} \cup {Failure(TRUE, c) : c \in {400, 403, 404, 405, 500}}

\* C12: classifying is idempotent and keeps the code: an *AppError is used
\* as it is, any other failure becomes a new *AppError, classifying twice
\* gives what classifying once gives, and the error processError routes
\* carries the code of the *AppError it was given.
C12_ClassifyIdempotent ==
    /\ \A x \in Failures \cup {err} :
         x # NoFailure =>
            /\ Classify(Classify(x)) = Classify(x)
            /\ x.cls => Classify(x) = x
            /\ ~x.cls => (Classify(x).cls /\ Classify(x) # x)
    /\ (pc \in {"pe_check", "pe_invoke", "pe_default"} /\ err.cls)
          => e.code = err.code

\* C12 witness: processError was given an *AppError with code 404 and
\* routes an error with code 404.
C12_Witness ==
    /\ pc = "pe_check"
    /\ err = Failure(TRUE, 404)
    /\ e.code = 404

\* The argument of the last call of the registration function of kind k.
LastRegistered(k) ==
    CASE k = "err" -> registered.err
      [] k = "notFound" -> registered.notFound
      [] OTHER -> registered.forbidden

\* C13: after every step each registration holds the argument of the last
\* call of its Set...Handler function, a call for one code leaves the
\* registrations of the two other codes as they were, and the handler an
\* override invocation calls is the one registered last for its kind.
C13_LastRegistrationWins ==
    [][ /\ errHandler' = registered'.err
        /\ notFoundHandler' = registered'.notFound
        /\ forbiddenHandler' = registered'.forbidden
        /\ registered'.err # registered.err =>
              /\ notFoundHandler' = notFoundHandler
              /\ forbiddenHandler' = forbiddenHandler
        /\ registered'.notFound # registered.notFound =>
              /\ errHandler' = errHandler
              /\ forbiddenHandler' = forbiddenHandler
        /\ registered'.forbidden # registered.forbidden =>
              /\ errHandler' = errHandler
              /\ notFoundHandler' = notFoundHandler
        /\ Len(invoked') = Len(invoked) + 1 =>
              /\ invoked'[Len(invoked')].h = LastRegistered(invoked'[Len(invoked')].kind)
              /\ invoked'[Len(invoked')].h # NilHandler
      ]_vars

\* C13 witness: in the second request a 403 failure was handed to the
\* 403-override, which is the handler registered last and differs from the
\* other two registrations.
C13_Witness ==
    /\ served = 2
    /\ setting.at = "idle"
    /\ routerNotFound = AsHttpHandler(notFoundHandler)
    /\ fn.res = "err" /\ fn.code = 403
    /\ Len(invoked) = 1
    /\ invoked[1].kind = "forbidden"
    /\ invoked[1].h = forbiddenHandler
    /\ forbiddenHandler = Handler(200, "nil", 0, "")
    /\ errHandler = Handler(0, "panic", 0, "boom")
    /\ notFoundHandler = Handler(0, "err", 404, "")

\* C14 as stated: no write of a registration takes place while
\* processError is reading the registrations, that is from its test of
\* them to its call of the override it chose.
C14_NoWriteWhileReading ==
    [][ (pc \in {"pe_check", "pe_invoke"}) =>
            (/\ errHandler' = errHandler
             /\ notFoundHandler' = notFoundHandler
             /\ forbiddenHandler' = forbiddenHandler) ]_vars

\* C19 as stated: processError never calls a nil Handler.
C19_NeverCallsNil == panicking # "nil call"

\* C18: when the application handler is about to be invoked the header
\* X-UA-Compatible is set and the Request is fresh (nothing written,
\* invoked, classified or logged with it, no failure, no invocation of the
\* handler yet); the header is set in every later state of the request, so
\* under every write made on the writer.
C18_HeaderBeforeHandler ==
    /\ pc = "call" =>
         /\ hdr
         /\ calls = 0
         /\ W = <<>>
         /\ invoked = <<>>
         /\ errs = <<>>
         /\ logged = <<>>
         /\ notified = <<>>
         /\ err = NoFailure
         /\ ~inDefer
    /\ calls >= 1 => hdr
    /\ W # <<>> => hdr
    /\ pc # "idle" => hdr

\* C18 witness: the recovery path wrote the default response of a request
\* whose handler panicked, with the header set.
C18_Witness ==
    /\ pc = "done"
    /\ fn.res = "panic"
    /\ hdr
    /\ W # <<>>
    /\ W[Len(W)].by = "default"

\* The entries of MultiError m that are not unknown-field errors.
OtherEntries(m) == {k \in DOMAIN m : m[k].kind # "unknown field"}

\* C15: LoadData returns nil when the form parses and the decoder returns
\* nil or a MultiError made of unknown-field errors only; it returns a
\* classified error when the decoder's MultiError has an entry of another
\* kind, with or without unknown-field entries beside it, and exactly the
\* entries of another kind are left in it; it returns a classified error
\* when the decoder's error is not a MultiError.
C15_OnlyUnknownFieldsFiltered ==
    (ld.called /\ ~ld.parse) =>
        /\ ld.dec.kind = "nil" => ld.ret.isNil
        /\ (ld.dec.kind = "multi" /\ OtherEntries(ld.dec.entries) = {})
              => ld.ret.isNil
        /\ (ld.dec.kind = "multi" /\ OtherEntries(ld.dec.entries) # {}) =>
              /\ ~ld.ret.isNil
              /\ ld.ret.f.cls
              /\ DOMAIN ld.ret.left = OtherEntries(ld.dec.entries)
              /\ \A k \in DOMAIN ld.ret.left :
                    ld.ret.left[k] = ld.dec.entries[k]
        /\ ld.dec.kind = "other" => (~ld.ret.isNil /\ ld.ret.f.cls)

\* C16: Redirect and RedirectPermanently return nil for every path and
\* writer, so ServeHTTP is over once a handler has returned their result;
\* the write Redirect makes has status 302, the one RedirectPermanently
\* makes has status 301, which is the status of the response when the
\* writer was not written before.
C16_RedirectReturnsNil ==
    rd.called =>
        /\ rd.ret = "nil"
        /\ AfterHandler(rd.ret) = "done"
        /\ Len(rd.W) = Len(rd.w0) + 1
        /\ rd.W[Len(rd.W)].st = (IF rd.method = "Redirect" THEN 302 ELSE 301)
        /\ rd.W[Len(rd.W)].body = rd.path
        /\ rd.w0 = <<>> =>
              Status(rd.W) = (IF rd.method = "Redirect" THEN 302 ELSE 301)

\* C16 witness: RedirectPermanently("/foo") on a fresh writer gave a 301
\* response and returned nil.
C16_Witness ==
    /\ rd.called
    /\ rd.method = "RedirectPermanently"
    /\ rd.path = "/foo"
    /\ rd.w0 = <<>>
    /\ Status(rd.W) = 301
    /\ rd.ret = "nil"

\* Number of elements of sequence q that are x.
Occurrences(q, x) == Cardinality({j \in DOMAIN q : q[j] = x})

\* C17: in production, once sendErrorByEmail has returned, every address
\* whose body could be rendered has had exactly one send attempt and the
\* others none, every address with a failure has exactly one local log
\* record and the others none, whatever happened with the addresses before
\* it; on the dev server nothing is sent or logged.
C17_NotifierFailuresSwallowed ==
    /\ (mail.called /\ ~mail.dev) =>
         \A k \in DOMAIN mail.outs :
            /\ Occurrences(mail.sent, k) =
                  (IF mail.outs[k] = "template fails" THEN 0 ELSE 1)
            /\ Cardinality({j \in DOMAIN mail.local : mail.local[j].admin = k})
                  = (IF mail.outs[k] = "ok" THEN 0 ELSE 1)
    /\ (mail.called /\ mail.dev) =>
         (mail.sent = <<>> /\ mail.local = <<>>)

\* C17 witness: the mail to the first address could not be sent, the second
\* address got its mail, and the failure of the first is in the local log.
C17_Witness ==
    /\ mail.called
    /\ ~mail.dev
    /\ mail.outs = <<"send fails", "ok">>
    /\ mail.sent = <<1, 2>>
    /\ mail.local = <<[admin |-> 1, what |-> "send fails"]>>

====
